---- MODULE Spec2Model ----
(***************************************************************************)
(* MicroStr<CAP>: a fixed-capacity, stack-allocated UTF-8 string           *)
(* (src/src/lib.rs).  A value is the pair (buffer : [u8; CAP], len).       *)
(* Bytes are the integers 0..255, characters are Unicode scalar values,    *)
(* and a text (&str) is the sequence of its UTF-8 bytes.  Rust offsets are *)
(* 0-based; the sequences here are 1-based, so byte offset i of the source *)
(* is element i + 1.                                                       *)
(***************************************************************************)
EXTENDS Integers, Sequences, FiniteSets, TLC

VARIABLES CAP, buffer, len, op, pre, oob, other, input

vars == <<CAP, buffer, len, op, pre, oob, other, input>>

\* Largest capacity CAP the model instantiates MicroStr<CAP> with.
MaxCap == 4

\* Largest number of characters of a text argument (s of from_str, push_str).
MaxTextLen == 2

\* Largest number of bytes by which len may run past CAP once it is corrupted.
MaxOverrun == 4

\* Largest capacities A and B of the two values of a comparison.
MaxCapEq == 2

\* The characters the inputs are drawn from, one of each UTF-8 length:
\* 'A' (1 byte), U+00E9 (2 bytes), U+6CB3 (3 bytes), U+1F30D (4 bytes).
Chars == {65, 233, 27827, 127757}

\* The texts given to from_str, from_const and push_str, as character sequences.
Texts == UNION {[1..n -> Chars] : n \in 0..MaxTextLen}

\* Values of the bytes that lie directly after the buffer in memory; a read
\* past the buffer may see any of them.
AdjacentBytes == {0, 65, 130, 191}

AdjacentMemory == [1..3 -> AdjacentBytes]

\* Bytes of the arrays handed to from_raw_buffer: the terminator, an ASCII
\* byte and the two bytes of U+00E9.
RawBytes == {0, 65, 195, 169}

\* Characters of JSON documents: those of Chars, the quotation mark and the
\* reverse solidus.
JsonChars == Chars \cup {34, 92}

JsonDocs == UNION {[1..n -> JsonChars] : n \in 0..(MaxTextLen + 2)}

\* usize::MAX + 1, scaled down to the integers TLC can hold; every length of
\* the model is far below it.
UsizeRange == 2^30

(***************************************************************************)
(* Helpers of lib.rs and the core primitives they call.                    *)
(***************************************************************************)

\* Mutant of is_utf8_continuation: takes every non-ASCII byte for one.
is_utf8_continuation_non_ascii(byte) == byte >= 128

\* byte & 0b1100_0000 == 0b1000_0000
is_utf8_continuation(byte) == (byte \div 64) = 2

const_min(a, b) == IF a <= b THEN a ELSE b

\* usize::saturating_sub
saturating_sub(a, b) == IF a >= b THEN a - b ELSE 0

\* char::len_utf8
len_utf8(ch) ==
    IF ch < 128 THEN 1
    ELSE IF ch < 2048 THEN 2
    ELSE IF ch < 65536 THEN 3
    ELSE 4

\* ch.encode_utf8(&mut result) into a zeroed [u8; 4]
char_to_bytes_utf8(ch) ==
    IF ch < 128 THEN <<ch, 0, 0, 0>>
    ELSE IF ch < 2048 THEN <<192 + (ch \div 64), 128 + (ch % 64), 0, 0>>
    ELSE IF ch < 65536 THEN
        <<224 + (ch \div 4096), 128 + ((ch \div 64) % 64), 128 + (ch % 64), 0>>
    ELSE
        <<240 + (ch \div 262144), 128 + ((ch \div 4096) % 64),
          128 + ((ch \div 64) % 64), 128 + (ch % 64)>>

\* The bytes of a &str holding the characters t (a string literal's encoding).
RECURSIVE str_as_bytes(_)
str_as_bytes(t) ==
    IF t = <<>> THEN <<>>
    ELSE SubSeq(char_to_bytes_utf8(Head(t)), 1, len_utf8(Head(t))) \o str_as_bytes(Tail(t))

\* ptr::copy_nonoverlapping(src, dst.add(at), n): the bytes of dst afterwards.
\* Bytes written past the end of dst land outside the value (see the oob flag).
copy_nonoverlapping(src, dst, at, n) ==
    [i \in 1..Len(dst) |-> IF i > at /\ i <= at + n THEN src[i - at] ELSE dst[i]]

\* Mutant of truncate_loop: steps back one byte only, whatever that byte is.
truncate_loop_one_step(bytes, idx, i) == i - 1

\* <str as BoundaryCheckedTruncate>::truncate: the while loop, entered with i.
RECURSIVE truncate_loop(_, _, _)
truncate_loop(bytes, idx, i) ==
    IF i > 0 THEN
        LET j == i - 1 IN
        IF ~is_utf8_continuation(bytes[j + 1]) THEN j
        ELSE IF j <= saturating_sub(idx, 4) THEN j
        ELSE truncate_loop(bytes, idx, j)
    ELSE i

\* Mutant of BoundaryCheckedTruncate: cuts at idx without looking for a boundary.
BoundaryCheckedTruncate_unchecked(bytes, idx) ==
    SubSeq(bytes, 1, const_min(idx, Len(bytes)))

\* <str as BoundaryCheckedTruncate>::truncate(self, idx): the prefix returned.
BoundaryCheckedTruncate(bytes, idx) ==
    IF idx >= Len(bytes) THEN bytes
    ELSE IF idx = 0 THEN <<>>
    ELSE IF ~is_utf8_continuation(bytes[idx + 1]) THEN SubSeq(bytes, 1, idx)
    ELSE SubSeq(bytes, 1, truncate_loop(bytes, idx, idx))

(***************************************************************************)
(* MicroStr<CAP> values: self = [buffer |-> <<CAP bytes>>, len |-> n].     *)
(***************************************************************************)

capacity(self) == Len(self.buffer)

bytes_len(self) == self.len

\* MicroStr::as_bytes: &self.buffer[..self.len].  The slice index panics when
\* len > CAP, so its callers are guarded by len <= CAP.
as_bytes(self) == SubSeq(self.buffer, 1, self.len)

\* Mutant of extra_capacity: keeps one byte back for the sentinel.
extra_capacity_reserving(self) == saturating_sub(Len(self.buffer), self.len + 1)

\* CAP - self.len in usize arithmetic: when len > CAP a build without overflow
\* checks wraps around (a build with them panics, see PushStr).
extra_capacity(self) == (capacity(self) - self.len) % UsizeRange

\* MicroStr::new: zeroed buffer, len 0.
new(cap) == [buffer |-> [i \in 1..cap |-> 0], len |-> 0]

\* MicroStr::push_unchecked
push_unchecked(self, ch) ==
    [buffer |-> copy_nonoverlapping(char_to_bytes_utf8(ch), self.buffer,
                                    self.len, len_utf8(ch)),
     len |-> self.len + len_utf8(ch)]

\* Mutant of push: `<` for `<=`, a character that fits exactly is rejected.
push_strict(self, ch) ==
    IF len_utf8(ch) + self.len < capacity(self)
    THEN [self |-> push_unchecked(self, ch), ok |-> TRUE]
    ELSE [self |-> self, ok |-> FALSE]

\* MicroStr::push: the value after the call and the Result it returns.
push(self, ch) ==
    IF len_utf8(ch) + self.len <= capacity(self)
    THEN [self |-> push_unchecked(self, ch), ok |-> TRUE]
    ELSE [self |-> self, ok |-> FALSE]

\* MicroStr::push_str_unchecked
push_str_unchecked(self, s) ==
    [buffer |-> copy_nonoverlapping(s, self.buffer, self.len, Len(s)),
     len |-> self.len + Len(s)]

\* Mutant of push_str: Err carries the number of bytes left out.
push_str_reports_rest(self, s) ==
    LET truncated == BoundaryCheckedTruncate(s, extra_capacity(self))
        pushing_len == Len(truncated)
    IN [self |-> push_str_unchecked(self, truncated),
        ok |-> pushing_len = Len(s),
        n |-> Len(s) - pushing_len]

\* MicroStr::push_str: the value after the call, Ok(()) or Err(pushing_len).
push_str(self, s) ==
    LET truncated == BoundaryCheckedTruncate(s, extra_capacity(self))
        pushing_len == Len(truncated)
    IN [self |-> push_str_unchecked(self, truncated),
        ok |-> pushing_len = Len(s),
        n |-> pushing_len]

\* MicroStr::from_str: Ok(result) or Err((result, bytes)).
from_str(cap, s) == push_str(new(cap), s)

\* Mutant of clear: resets len and leaves the first byte as it is.
clear_len_only(self) == [buffer |-> self.buffer, len |-> 0]

\* MicroStr::clear
clear(self) ==
    [buffer |-> [i \in 1..capacity(self) |-> IF i = 1 THEN 0 ELSE self.buffer[i]],
     len |-> 0]

\* Mutant of from_raw_buffer_len: skips the 0 bytes instead of stopping at
\* the first.
from_raw_buffer_len_skipping(buf, pos, n) ==
    n + Cardinality({i \in pos..Len(buf) : buf[i] # 0})

\* MicroStr::from_raw_buffer: the loop over &buf, about to look at the byte
\* at offset pos - 1 with len = n.
RECURSIVE from_raw_buffer_len(_, _, _)
from_raw_buffer_len(buf, pos, n) ==
    IF pos > Len(buf) THEN n
    ELSE IF buf[pos] = 0 THEN n
    ELSE from_raw_buffer_len(buf, pos + 1, n + 1)

\* MicroStr::from_raw_buffer
from_raw_buffer(buf) == [buffer |-> buf, len |-> from_raw_buffer_len(buf, 1, 0)]

\* serde_json, parsing a string: the characters from position p up to the
\* closing quotation mark, escapes decoded, appended to acc; p ends after the
\* closing quotation mark.  The end of the document or an escape other than
\* \" and \\ is an error.
RECURSIVE json_parse_str(_, _, _)
json_parse_str(doc, p, acc) ==
    IF p > Len(doc) THEN [ok |-> FALSE]
    ELSE IF doc[p] = 34 THEN [ok |-> TRUE, s |-> acc, p |-> p + 1]
    ELSE IF doc[p] = 92 THEN
        IF p + 1 <= Len(doc) /\ doc[p + 1] \in {34, 92}
        THEN json_parse_str(doc, p + 2, Append(acc, doc[p + 1]))
        ELSE [ok |-> FALSE]
    ELSE json_parse_str(doc, p + 1, Append(acc, doc[p]))

\* serde_json::from_str::<String>(json): the document must be one string
\* literal with nothing after it.
serde_json_from_str(json) ==
    IF json = <<>> \/ Head(json) # 34 THEN [ok |-> FALSE]
    ELSE LET r == json_parse_str(json, 2, <<>>) IN
         IF r.ok /\ r.p > Len(json) THEN [ok |-> TRUE, s |-> r.s]
         ELSE [ok |-> FALSE]

\* Mutant of from_json: builds the value from the decoded text without the
\* capacity check, as From<String> does.
from_json_truncating(cap, json) ==
    LET d == serde_json_from_str(json) IN
    IF ~d.ok THEN [ok |-> FALSE]
    ELSE [ok |-> TRUE, self |-> from_str(cap, str_as_bytes(d.s)).self]

\* MicroStr::from_json; Ok carries the MicroStr that from_str builds.
from_json(cap, json) ==
    LET d == serde_json_from_str(json) IN
    IF ~d.ok THEN [ok |-> FALSE]
    ELSE IF Len(str_as_bytes(d.s)) > cap THEN [ok |-> FALSE]
    ELSE [ok |-> TRUE, self |-> from_str(cap, str_as_bytes(d.s)).self]

\* MicroStr::as_str: the live bytes taken as a str, without validation.
as_str(self) == as_bytes(self)

\* Mutant of eq: field-wise equality, as a derived PartialEq would compare.
eq_fieldwise(a, b) == a.buffer = b.buffer /\ a.len = b.len

\* <MicroStr<A> as PartialEq<MicroStr<B>>>::eq
eq(a, b) == as_str(a) = as_str(b)

\* <MicroStr<A> as PartialEq<MicroStr<B>>>::ne
ne(a, b) == as_str(a) # as_str(b)

\* core::str::next_code_point, as Chars::next runs it: the character decoded
\* at offset p of mem and the number of bytes consumed.  The continuation
\* bytes are read unchecked (unwrap_unchecked), whatever they are.
next_code_point(mem, p) ==
    LET rd(i) == IF i < Len(mem) THEN mem[i + 1] ELSE 0
        x == rd(p)
        init == x % 32
        y == rd(p + 1) % 64
        z == rd(p + 2) % 64
        w == rd(p + 3) % 64
    IN  IF x < 128 THEN [ch |-> x, used |-> 1]
        ELSE IF x < 224 THEN [ch |-> init * 64 + y, used |-> 2]
        ELSE IF x < 240 THEN [ch |-> init * 4096 + y * 64 + z, used |-> 3]
        ELSE [ch |-> (init % 8) * 262144 + y * 4096 + z * 64 + w, used |-> 4]

\* Mutant of chars_count: the byte length for the character count.
chars_count_bytes(self) == self.len

\* MicroStr::len: self.chars().count(), which core computes as the number of
\* bytes of the slice that are not continuation bytes.
chars_count(self) ==
    Cardinality({i \in 1..self.len : ~is_utf8_continuation(self.buffer[i])})

\* Whether decoding the live bytes reads past them (the last character is cut).
RECURSIVE reads_past(_, _)
reads_past(self, p) ==
    IF p >= self.len THEN p > self.len
    ELSE reads_past(self, p + next_code_point(self.buffer, p).used)

\* The memory Chars::next may read for self: the buffer, then what follows it.
Adjacent(self) == IF reads_past(self, 0) THEN AdjacentMemory ELSE {<<0, 0, 0>>}

\* Mutant of truncate_scan: one byte per character, char_idx used as an offset.
truncate_scan_byte_per_char(mem, end, p, idx, char_idx, byte_idx) ==
    const_min(char_idx, end)

\* MicroStr::truncate: the loop `for (idx, ch) in self.chars().enumerate()`,
\* at offset p of mem with idx characters taken; end is the slice's end, which
\* the iterator only recognises when it lands exactly on it.
RECURSIVE truncate_scan(_, _, _, _, _, _)
truncate_scan(mem, end, p, idx, char_idx, byte_idx) ==
    IF p = end \/ idx = char_idx THEN byte_idx
    ELSE LET c == next_code_point(mem, p)
         IN truncate_scan(mem, end, p + c.used, idx + 1, char_idx,
                          byte_idx + len_utf8(c.ch))

\* MicroStr::truncate(char_idx): the value after the call.  adj is the memory
\* after the buffer.  The sentinel write at byte_idx >= CAP is out of bounds
\* (undefined behaviour): it lands in the bytes that follow the buffer
\* (padding or a neighbouring object), which are no part of the value; oob
\* records it.
truncate(self, char_idx, adj) ==
    IF char_idx > chars_count(self)
    THEN [self |-> self, oob |-> FALSE]
    ELSE LET byte_idx == truncate_scan(self.buffer \o adj, self.len, 0, 0, char_idx, 0)
         IN IF byte_idx < capacity(self)
            THEN [self |-> [buffer |-> [self.buffer EXCEPT ![byte_idx + 1] = 0],
                            len |-> byte_idx],
                  oob |-> FALSE]
            ELSE [self |-> [buffer |-> self.buffer, len |-> byte_idx], oob |-> TRUE]

\* MicroStr::from_const: the `while` that steps back over continuation bytes.
RECURSIVE from_const_back(_, _, _)
from_const_back(buf, s_len, l) ==
    IF l > 0 /\ l < s_len /\ l < Len(buf) /\ is_utf8_continuation(buf[l])
    THEN from_const_back(buf, s_len, l - 1)
    ELSE l

\* MicroStr::from_const
from_const(cap, s) ==
    LET buf == copy_nonoverlapping(s, new(cap).buffer, 0, const_min(Len(s), cap))
        l == from_const_back(buf, Len(s), const_min(Len(s), cap))
        cont(i) == is_utf8_continuation(s[i + 1])
        last_byte == buf[l]
        l2 == IF l > 0 /\ l < cap /\ l < Len(s) THEN
                  IF last_byte \in 192..223 THEN
                      IF l = cap \/ l = Len(s) THEN l
                      ELSE IF ~cont(l) THEN l - 1 ELSE l
                  ELSE IF last_byte \in 224..239 THEN
                      IF l + 1 >= cap \/ l + 1 >= Len(s) THEN l - 1
                      ELSE IF ~cont(l) \/ ~cont(l + 1) THEN l - 1 ELSE l
                  ELSE IF last_byte \in 240..247 THEN
                      IF l + 2 >= cap \/ l + 2 >= Len(s) THEN l - 1
                      ELSE IF ~cont(l) \/ ~cont(l + 1) \/ ~cont(l + 2) THEN l - 1 ELSE l
                  ELSE l
              ELSE l
    IN [buffer |-> buf, len |-> l2]

(***************************************************************************)
(* The program: a caller that builds one MicroStr<CAP> value with a        *)
(* constructor and then calls its methods one after the other.  op is the  *)
(* call that has just returned (its arguments and its result), pre the     *)
(* value it was made on (for a constructor, the Self::new() it starts      *)
(* from), oob whether the call wrote outside the buffer.  The caller takes *)
(* the result (Return) before it makes the next call.  other is a second   *)
(* value, a MicroStr<B>, for the callers that compare two of them; the     *)
(* others keep an empty MicroStr<0> there.  input is the argument a caller  *)
(* has prepared for a function that takes no MicroStr (a str and an        *)
(* offset, a raw array, a JSON document); it is empty for the others.      *)
(***************************************************************************)

self == [buffer |-> buffer, len |-> len]

Call(name, t, ch, n, ok, ret, panic) ==
    [name |-> name, t |-> t, ch |-> ch, n |-> n, ok |-> ok, ret |-> ret,
     panic |-> panic]

\* The value is constructed by MicroStr::new() or MicroStr::from_str(s).
Init ==
    /\ CAP \in 0..MaxCap
    /\ pre = new(CAP)
    /\ oob = FALSE
    /\ other = new(0)
    /\ input = <<>>
    /\ \/ /\ buffer = new(CAP).buffer
          /\ len = new(CAP).len
          /\ op = Call("new", <<>>, 0, 0, TRUE, 0, FALSE)
       \/ \E t \in Texts :
            LET r == from_str(CAP, str_as_bytes(t)) IN
            /\ buffer = r.self.buffer
            /\ len = r.self.len
            /\ op = Call("from_str", t, 0, 0, r.ok, r.n, FALSE)

\* The value is constructed by MicroStr::from_const(s).
InitConst ==
    /\ CAP \in 0..MaxCap
    /\ pre = new(CAP)
    /\ oob = FALSE
    /\ other = new(0)
    /\ input = <<>>
    /\ \E t \in Texts :
            LET r == from_const(CAP, str_as_bytes(t)) IN
            /\ buffer = r.buffer
            /\ len = r.len
            /\ op = Call("from_const", t, 0, 0, TRUE, 0, FALSE)

Becomes(v) == buffer' = v.buffer /\ len' = v.len

\* No call is in progress: the caller holds the value and may call a method.
Idle == op.name = "none"

\* The caller takes the result of the call that returned, as the tests do
\* (assert_eq!(s.push_str(..), ..)), and is ready for the next call.
Return ==
    /\ ~Idle
    /\ op' = Call("none", <<>>, 0, 0, TRUE, 0, FALSE)
    /\ pre' = self
    /\ oob' = FALSE
    /\ UNCHANGED <<CAP, buffer, len, other, input>>

Push ==
    /\ Idle
    /\ \E ch \in Chars :
        LET r == push(self, ch) IN
        /\ Becomes(r.self)
        /\ op' = Call("push", <<>>, ch, 0, r.ok, 0, FALSE)
        /\ pre' = self
        /\ oob' = FALSE
        /\ UNCHANGED <<CAP, other, input>>

\* push_str on a value with len <= CAP.
PushStr ==
    /\ Idle
    /\ len <= CAP
    /\ \E t \in Texts :
        LET r == push_str(self, str_as_bytes(t)) IN
        /\ Becomes(r.self)
        /\ op' = Call("push_str", t, 0, 0, r.ok, r.n, FALSE)
        /\ pre' = self
        /\ oob' = FALSE
        /\ UNCHANGED <<CAP, other, input>>

\* truncate on a value with len <= CAP.  Every char_idx above the character
\* count takes the same early return; one of them stands for all.
Truncate ==
    /\ Idle
    /\ len <= CAP
    /\ \E char_idx \in 0..(chars_count(self) + 1) : \E adj \in Adjacent(self) :
        LET r == truncate(self, char_idx, adj) IN
        /\ Becomes(r.self)
        /\ op' = Call("truncate", <<>>, 0, char_idx, TRUE, 0, FALSE)
        /\ pre' = self
        /\ oob' = r.oob
        /\ UNCHANGED <<CAP, other, input>>

Clear ==
    /\ Idle
    /\ Becomes(clear(self))
    /\ op' = Call("clear", <<>>, 0, 0, TRUE, 0, FALSE)
    /\ pre' = self
    /\ oob' = FALSE
    /\ UNCHANGED <<CAP, other, input>>

\* push_str on a value whose len has run past CAP: `CAP - self.len` panics in
\* a build with overflow checks; without them it wraps, nothing is truncated
\* and the whole of s is copied past the end of the buffer.
PushStrOverrun ==
    /\ Idle
    /\ len > CAP
    /\ \E t \in Texts :
        /\ pre' = self
        /\ UNCHANGED <<CAP, buffer, other, input>>
        /\ \/ /\ op' = Call("push_str", t, 0, 0, FALSE, 0, TRUE)
              /\ UNCHANGED len
              /\ oob' = FALSE
           \/ LET r == push_str(self, str_as_bytes(t)) IN
              /\ r.self.len <= CAP + MaxOverrun
              /\ len' = r.self.len
              /\ op' = Call("push_str", t, 0, 0, r.ok, r.n, FALSE)
              /\ oob' = (Len(str_as_bytes(t)) > 0)

\* truncate on a value whose len has run past CAP: self.len() slices
\* &self.buffer[..self.len], which panics.
TruncatePanic ==
    /\ Idle
    /\ len > CAP
    /\ \E char_idx \in 0..1 :
        /\ op' = Call("truncate", <<>>, 0, char_idx, FALSE, 0, TRUE)
        /\ pre' = self
        /\ oob' = FALSE
        /\ UNCHANGED <<CAP, buffer, len, other, input>>

\* Two values, a MicroStr<A> (self) and a MicroStr<B> (other), each built by
\* new() or from_str(s).
InitEq ==
    /\ CAP \in 0..MaxCapEq
    /\ pre = new(CAP)
    /\ oob = FALSE
    /\ input = <<>>
    /\ \E B \in 0..MaxCapEq : \E t \in Texts :
            other = from_str(B, str_as_bytes(t)).self
    /\ \/ /\ buffer = new(CAP).buffer
          /\ len = new(CAP).len
          /\ op = Call("new", <<>>, 0, 0, TRUE, 0, FALSE)
       \/ \E t \in Texts :
            LET r == from_str(CAP, str_as_bytes(t)) IN
            /\ buffer = r.self.buffer
            /\ len = r.self.len
            /\ op = Call("from_str", t, 0, 0, r.ok, r.n, FALSE)

\* other.push(ch); its result is dropped.
OtherPush ==
    /\ Idle
    /\ \E ch \in Chars : other' = push(other, ch).self
    /\ UNCHANGED <<CAP, buffer, len, op, pre, oob, input>>

\* other.clear()
OtherClear ==
    /\ Idle
    /\ other' = clear(other)
    /\ UNCHANGED <<CAP, buffer, len, op, pre, oob, input>>

\* self == other
Eq ==
    /\ Idle
    /\ op' = Call("eq", <<>>, 0, 0, eq(self, other), 0, FALSE)
    /\ pre' = self
    /\ oob' = FALSE
    /\ UNCHANGED <<CAP, buffer, len, other, input>>

\* self != other
Ne ==
    /\ Idle
    /\ op' = Call("ne", <<>>, 0, 0, ne(self, other), 0, FALSE)
    /\ pre' = self
    /\ oob' = FALSE
    /\ UNCHANGED <<CAP, buffer, len, other, input>>

Next == Push \/ PushStr \/ Truncate \/ Clear \/ Return

Spec == Init /\ [][Next]_vars

NextConst == Next \/ PushStrOverrun \/ TruncatePanic

SpecConst == InitConst /\ [][NextConst]_vars

\* A caller holds a str s and an offset idx.
InitTrunc ==
    /\ CAP = 0
    /\ buffer = new(CAP).buffer
    /\ len = new(CAP).len
    /\ op = Call("none", <<>>, 0, 0, TRUE, 0, FALSE)
    /\ pre = new(CAP)
    /\ oob = FALSE
    /\ other = new(0)
    /\ \E s \in Texts : \E idx \in 0..(4 * MaxTextLen + 1) :
            input = [s |-> s, idx |-> idx]

\* BoundaryCheckedTruncate::truncate(s, idx); ret is the length of the
\* prefix of s it returns.
StrTruncate ==
    /\ Idle
    /\ op' = Call("str_truncate", input.s, 0, input.idx, TRUE,
                  Len(BoundaryCheckedTruncate(str_as_bytes(input.s), input.idx)),
                  FALSE)
    /\ UNCHANGED <<CAP, buffer, len, pre, oob, other, input>>

\* A caller holds a raw array [u8; CAP].
InitRaw ==
    /\ CAP \in 0..MaxCap
    /\ buffer = new(CAP).buffer
    /\ len = new(CAP).len
    /\ op = Call("none", <<>>, 0, 0, TRUE, 0, FALSE)
    /\ pre = new(CAP)
    /\ oob = FALSE
    /\ other = new(0)
    /\ input \in [1..CAP -> RawBytes]

\* The value becomes MicroStr::from_raw_buffer(input).
FromRawBuffer ==
    /\ Idle
    /\ Becomes(from_raw_buffer(input))
    /\ op' = Call("from_raw_buffer", <<>>, 0, 0, TRUE, 0, FALSE)
    /\ pre' = self
    /\ UNCHANGED <<CAP, oob, other, input>>

\* A caller holds a JSON document.
InitJson ==
    /\ CAP \in 0..MaxCap
    /\ buffer = new(CAP).buffer
    /\ len = new(CAP).len
    /\ op = Call("none", <<>>, 0, 0, TRUE, 0, FALSE)
    /\ pre = new(CAP)
    /\ oob = FALSE
    /\ other = new(0)
    /\ input \in JsonDocs

\* MicroStr::<CAP>::from_json(input): on Ok the value becomes the result, on
\* Err there is no new value.
FromJson ==
    /\ Idle
    /\ LET r == from_json(CAP, input) IN
        /\ IF r.ok THEN Becomes(r.self) ELSE UNCHANGED <<buffer, len>>
        /\ op' = Call("from_json", <<>>, 0, 0, r.ok, 0, FALSE)
    /\ pre' = self
    /\ UNCHANGED <<CAP, oob, other, input>>

NextEq == Next \/ OtherPush \/ OtherClear \/ Eq \/ Ne

SpecEq == InitEq /\ [][NextEq]_vars

SpecTrunc == InitTrunc /\ [][StrTruncate]_vars

SpecRaw == InitRaw /\ [][FromRawBuffer]_vars

SpecJson == InitJson /\ [][FromJson]_vars

(***************************************************************************)
(* What the claims speak of, stated without the code's algorithms.         *)
(***************************************************************************)

\* The UTF-8 encodings of the characters of JsonChars, as the Unicode tables give
\* them.
Utf8Of(ch) ==
    CASE ch = 65 -> <<65>>
      [] ch = 233 -> <<195, 169>>
      [] ch = 27827 -> <<230, 178, 179>>
      [] ch = 127757 -> <<240, 159, 140, 141>>
      [] ch = 34 -> <<34>>
      [] ch = 92 -> <<92>>

RECURSIVE Utf8OfText(_)
Utf8OfText(t) == IF t = <<>> THEN <<>> ELSE Utf8Of(Head(t)) \o Utf8OfText(Tail(t))

\* One well-formed UTF-8 byte sequence (Unicode, table 3-7): the encoding of
\* one scalar value, neither overlong nor a surrogate nor above U+10FFFF.
WellFormedChar(e) ==
    LET tail(i) == e[i] \in 128..191 IN
    \/ Len(e) = 1 /\ e[1] \in 0..127
    \/ Len(e) = 2 /\ e[1] \in 194..223 /\ tail(2)
    \/ Len(e) = 3 /\ e[1] = 224 /\ e[2] \in 160..191 /\ tail(3)
    \/ Len(e) = 3 /\ e[1] \in (225..236) \cup (238..239) /\ tail(2) /\ tail(3)
    \/ Len(e) = 3 /\ e[1] = 237 /\ e[2] \in 128..159 /\ tail(3)
    \/ Len(e) = 4 /\ e[1] = 240 /\ e[2] \in 144..191 /\ tail(3) /\ tail(4)
    \/ Len(e) = 4 /\ e[1] \in 241..243 /\ tail(2) /\ tail(3) /\ tail(4)
    \/ Len(e) = 4 /\ e[1] = 244 /\ e[2] \in 128..143 /\ tail(3) /\ tail(4)

\* bytes is a complete encoding of a sequence of scalar values.
RECURSIVE WellFormedUtf8(_)
WellFormedUtf8(bytes) ==
    \/ bytes = <<>>
    \/ \E k \in 1..const_min(4, Len(bytes)) :
        /\ WellFormedChar(SubSeq(bytes, 1, k))
        /\ WellFormedUtf8(SubSeq(bytes, k + 1, Len(bytes)))

\* The live bytes buffer[0..len) of the value and of the value before the call.
Live == SubSeq(buffer, 1, len)

PreLive == SubSeq(pre.buffer, 1, pre.len)

\* The bytes of the text argument of the last call.
ArgBytes == Utf8OfText(op.t)

\* The longest prefix of the text t that ends on a character boundary of t
\* and is at most avail bytes long.
LongestFittingPrefix(t, avail) ==
    LET fits == {k \in 0..Len(t) : Len(Utf8OfText(SubSeq(t, 1, k))) <= avail}
        k == CHOOSE x \in fits : \A y \in fits : y <= x
    IN Utf8OfText(SubSeq(t, 1, k))

\* The character boundaries of well-formed bytes, and the offset at which the
\* first n characters end.
Boundaries(bytes) ==
    {i \in 0..Len(bytes) : i = Len(bytes) \/ bytes[i + 1] \notin 128..191}

NthBoundary(bytes, n) ==
    CHOOSE b \in Boundaries(bytes) :
        Cardinality({x \in Boundaries(bytes) : x < b}) = n

\* The number of characters of well-formed bytes.
CharCount(bytes) == Cardinality(Boundaries(bytes)) - 1

\* The offsets of the text t at which a character of t ends.
TextBoundaries(t) == {Len(Utf8OfText(SubSeq(t, 1, k))) : k \in 0..Len(t)}

\* The JSON string literal of the text s (RFC 8259): s between quotation
\* marks, a quotation mark or reverse solidus of s preceded by a reverse
\* solidus.
RECURSIVE JsonEscaped(_)
JsonEscaped(s) ==
    IF s = <<>> THEN <<>>
    ELSE (IF Head(s) \in {34, 92} THEN <<92, Head(s)>> ELSE <<Head(s)>>)
         \o JsonEscaped(Tail(s))

JsonTexts == UNION {[1..n -> JsonChars] : n \in 0..MaxTextLen}

JsonLiteralOf == [s \in JsonTexts |-> <<34>> \o JsonEscaped(s) \o <<34>>]

\* The last call returned (it did not panic), and it was the method name.
Returned(name) == op.name = name /\ ~op.panic

(***************************************************************************)
(* The claims.                                                             *)
(***************************************************************************)

\* C1: after any sequence of new, from_str, push, push_str, truncate and
\* clear the live bytes buffer[0..len) are complete, valid UTF-8: len is on a
\* character boundary and no partial multi-byte sequence ends the content.
C1_LiveBytesAreUtf8 == len <= CAP /\ WellFormedUtf8(Live)

\* C1 witness: push_str had to cut its text inside a multi-byte character,
\* leaving free bytes the cut character did not fit in.
C1_Witness ==
    /\ Returned("push_str") /\ ~op.ok /\ op.ret > 0
    /\ len < CAP /\ pre.len > 0
    /\ Len(Utf8Of(op.t[1])) > 1

\* C2: bytes_len() <= CAP in every state reachable by new, from_str,
\* from_const, push, push_str, truncate and clear, for every CAP (so that
\* extra_capacity() = CAP - len never underflows).
C2_LenWithinCap == len <= CAP

\* C3: push_str(s) leaves the content equal to the old content followed by
\* the longest prefix of s that ends on a character boundary and is at most
\* CAP - old len bytes long; with CAP - old len = 0 nothing is appended.
C3_PushStrAppendsLongestPrefix ==
    Returned("push_str") =>
        /\ Live = PreLive \o LongestFittingPrefix(op.t, CAP - pre.len)
        /\ (CAP - pre.len = 0 => len = pre.len /\ buffer = pre.buffer)

\* C3 witness: a text of two characters of which the first fits and the
\* second, a multi-byte one, is cut off although bytes remain.
C3_Witness ==
    /\ Returned("push_str") /\ Len(op.t) = 2
    /\ len = pre.len + Len(Utf8Of(op.t[1]))
    /\ len < CAP /\ pre.len > 0

\* C4: push_str(s) returns Ok(()) exactly when all of s was appended (len grew
\* by s.len()); otherwise Err(n) with n = new len - old len and n < s.len();
\* truncation is never a panic.
C4_PushStrResult ==
    op.name = "push_str" =>
        /\ ~op.panic
        /\ op.ok <=> (len = pre.len + Len(ArgBytes))
        /\ ~op.ok => (op.ret = len - pre.len /\ op.ret < Len(ArgBytes))

\* C4 witness: push_str returned Err(n) for a text of which n > 0 bytes went
\* in and more than n bytes were left out.
C4_Witness ==
    /\ Returned("push_str") /\ ~op.ok /\ op.ret > 0
    /\ Len(ArgBytes) - op.ret > op.ret

\* C5: push(ch) is all-or-nothing: if len + len_utf8(ch) <= CAP it appends
\* the encoding of ch at offset len, adds len_utf8(ch) to len and returns
\* Ok(()); otherwise it returns Err(()) and changes neither len nor any byte.
\* With CAP = 0 every push fails.
C5_PushAllOrNothing ==
    Returned("push") =>
        /\ IF pre.len + Len(Utf8Of(op.ch)) <= CAP
           THEN /\ op.ok
                /\ len = pre.len + Len(Utf8Of(op.ch))
                /\ Live = PreLive \o Utf8Of(op.ch)
                /\ \A i \in (len + 1)..CAP : buffer[i] = pre.buffer[i]
           ELSE /\ ~op.ok
                /\ len = pre.len
                /\ buffer = pre.buffer
        /\ (CAP = 0 => ~op.ok)

\* C5 witness: a multi-byte character that fills the buffer exactly was
\* pushed after other content.
C5_Witness ==
    /\ Returned("push") /\ op.ok /\ len = CAP /\ pre.len > 0
    /\ Len(Utf8Of(op.ch)) > 1

\* C6: for every s with s.len() > CAP, from_str(s) returns Err((buf, n)) where
\* buf holds the longest prefix of s that ends on a character boundary and is
\* at most CAP bytes long, and n = buf.bytes_len().
C6_FromStrTruncates ==
    (Returned("from_str") /\ Len(ArgBytes) > CAP) =>
        /\ ~op.ok
        /\ Live = LongestFittingPrefix(op.t, CAP)
        /\ op.ret = len

\* C6 witness: from_str cut its text inside a multi-byte character and kept
\* a shorter, non-empty prefix.
C6_Witness ==
    /\ Returned("from_str") /\ ~op.ok
    /\ 0 < len /\ len < CAP
    /\ Len(ArgBytes) > CAP

\* C7: for every s with s.len() <= CAP (CAP itself included), from_str(s)
\* returns Ok(buf) and buf reads back byte-identical (str_as_bytes() = bytes of s,
\* bytes_len() = s.len()) with the same number of characters (len()).
C7_FromStrRoundTrip ==
    (Returned("from_str") /\ Len(ArgBytes) <= CAP) =>
        /\ op.ok
        /\ as_bytes(self) = ArgBytes
        /\ bytes_len(self) = Len(ArgBytes)
        /\ chars_count(self) = Len(op.t)

\* C7 witness: a text with a multi-byte character that fills the capacity
\* exactly.
C7_Witness ==
    /\ Returned("from_str") /\ op.ok
    /\ Len(ArgBytes) = CAP /\ Len(op.t) = 2
    /\ Len(Utf8Of(op.t[2])) > 1

\* C8: from_const(s) is equivalent to from_str(s): same length and same live
\* content for every s and CAP; a longer s is truncated to fit without
\* splitting a multi-byte character.
C8_FromConstLikeFromStr ==
    Returned("from_const") =>
        /\ len = from_str(CAP, str_as_bytes(op.t)).self.len
        /\ Live = as_bytes(from_str(CAP, str_as_bytes(op.t)).self)
        /\ Live = LongestFittingPrefix(op.t, CAP)

\* C9: truncate(n) is a no-op whenever n >= the number of characters: len and
\* every byte of the backing storage are unchanged, n = count included.
C9_TruncateNoOp ==
    (Returned("truncate") /\ op.n >= CharCount(PreLive)) =>
        /\ len = pre.len
        /\ buffer = pre.buffer

\* C10: for n below the number of characters, truncate(n) leaves exactly the
\* first n characters: the new len is the sum of their UTF-8 lengths and the
\* bytes [0, new len) are unchanged.
C10_TruncateKeepsFirstChars ==
    (Returned("truncate") /\ op.n < CharCount(PreLive)) =>
        /\ len = NthBoundary(PreLive, op.n)
        /\ Live = SubSeq(pre.buffer, 1, len)

\* C10 witness: truncate(n) with n >= 1 kept a multi-byte character and
\* dropped what followed it.
C10_Witness ==
    /\ Returned("truncate") /\ op.n >= 1 /\ op.n < CharCount(PreLive)
    /\ len > op.n /\ len < pre.len

\* C11: sentinel invariant I3: in every state reachable by new, from_str,
\* push, push_str, truncate and clear, if len < CAP then buffer[len] = 0.
C11_SentinelAfterContent == len < CAP => buffer[len + 1] = 0

\* C12: clear() from any state yields the empty state (bytes_len() = 0,
\* len() = 0, as_str() = "", buffer[0] = 0 when CAP > 0) and is idempotent:
\* a second clear() leaves the state of the first; with CAP = 0 it writes
\* nothing.
C12_ClearEmptiesAndIsIdempotent ==
    Returned("clear") =>
        /\ bytes_len(self) = 0
        /\ chars_count(self) = 0
        /\ as_bytes(self) = <<>>
        /\ CAP > 0 => buffer[1] = 0
        /\ \A i \in 2..CAP : buffer[i] = pre.buffer[i]
        /\ clear(self) = self
        /\ CAP = 0 => (buffer = <<>> /\ ~oob)

\* C12 witness: clear() emptied a value that held a multi-byte character and
\* had free bytes after it.
C12_Witness ==
    /\ Returned("clear")
    /\ pre.len > 1 /\ pre.len < CAP
    /\ pre.buffer[1] > 127

\* C17: whenever truncate(char_idx) writes its sentinel 0 byte, the offset
\* byte_idx is below CAP, for every reachable value and every char_idx (a
\* full buffer with char_idx = character count included): truncate never
\* writes outside the CAP-byte storage.
C17_TruncateWritesInsideStorage == op.name = "truncate" => ~oob

\* C13: equality is content equality: for a: MicroStr<A> and b: MicroStr<B>
\* in any reachable states, a == b holds exactly when their live byte ranges
\* [0, len) are equal, whatever A and B are and whatever is stored at or
\* beyond len; a != b is the exact negation.
C13_EqIsContentEquality ==
    LET same == /\ len = other.len
                /\ \A i \in 1..len : buffer[i] = other.buffer[i]
    IN /\ Returned("eq") => (op.ok <=> same)
       /\ Returned("ne") => (op.ok <=> ~same)

\* C13 witness: two values of different capacities with the same non-empty
\* content compared equal, one of them holding a stale byte after it.
C13_Witness ==
    /\ Returned("eq") /\ op.ok
    /\ len > 0 /\ len < CAP /\ CAP # capacity(other)
    /\ buffer[len + 1] # 0

\* C16: for every valid UTF-8 text s and every offset idx >= 0, the
\* boundary-checked truncation of s at idx returns the prefix of length k,
\* where k is the largest character boundary of s with
\* k <= min(idx, s.len()): k is never inside a multi-byte character, never
\* greater than idx, never greater than s.len(); idx = 0 gives 0 and
\* idx >= s.len() gives s.len().
C16_BoundaryScanner ==
    Returned("str_truncate") =>
        LET bytes == Utf8OfText(input.s)
            k == op.ret
        IN /\ k \in TextBoundaries(input.s)
           /\ k <= input.idx /\ k <= Len(bytes)
           /\ \A b \in TextBoundaries(input.s) : b <= input.idx => b <= k
           /\ input.idx = 0 => k = 0
           /\ input.idx >= Len(bytes) => k = Len(bytes)

\* C16 witness: the offset pointed at the last byte of a 4-byte character
\* that follows another character, and the cut went back to its start.
C16_Witness ==
    /\ Returned("str_truncate")
    /\ input.idx < Len(Utf8OfText(input.s))
    /\ op.ret > 0 /\ input.idx - op.ret = 3

\* C15: from_raw_buffer(buf) keeps buf verbatim as the storage and sets len
\* to the index of the first 0 byte of buf, or to CAP when buf has no 0
\* byte; the content is exactly the bytes before that first 0.
C15_FromRawBufferScansToZero ==
    Returned("from_raw_buffer") =>
        LET zeros == {i \in 1..CAP : input[i] = 0} IN
        /\ buffer = input
        /\ zeros = {} => len = CAP
        /\ zeros # {} => (len + 1 \in zeros /\ \A z \in zeros : len + 1 <= z)
        /\ Len(Live) = len
        /\ \A i \in 1..len : Live[i] = input[i] /\ input[i] # 0

\* C15 witness: the array had content, a 0 byte, and non-zero bytes after
\* that 0 byte.
C15_Witness ==
    /\ Returned("from_raw_buffer")
    /\ len > 0 /\ len + 1 < CAP
    /\ input[len + 2] # 0

\* C14: from_json never truncates: for a JSON string literal that decodes
\* to the text s, from_json returns an error when s.len() > CAP and a value
\* whose content is exactly s when s.len() <= CAP; from_str, given the same
\* over-long s, returns the truncated value instead.
C14_FromJsonNeverTruncates ==
    Returned("from_json") =>
        \A s \in JsonTexts : input = JsonLiteralOf[s] =>
            LET str == Utf8OfText(s)
                direct == from_str(CAP, str)
            IN IF Len(str) > CAP
               THEN /\ ~op.ok
                    /\ self = pre
                    /\ ~direct.ok
                    /\ as_bytes(direct.self) = LongestFittingPrefix(s, CAP)
               ELSE /\ op.ok
                    /\ Live = str

\* C14 witness: the document was the literal of a text longer than CAP of
\* which from_str keeps a non-empty part, and from_json returned an error.
C14_Witness ==
    /\ Returned("from_json") /\ ~op.ok
    /\ \E s \in JsonTexts :
        /\ input = JsonLiteralOf[s]
        /\ Len(Utf8OfText(s)) > CAP
        /\ from_str(CAP, Utf8OfText(s)).self.len > 0

====
